---- MODULE Spec2Model ----
(***************************************************************************)
(* Let's Encrypt certificate renewer for cPanel hosts.                     *)
(*                                                                         *)
(* The repository holds five variants of one renewal routine:              *)
(*   "cron"      src/index.js 1-136     renew.js, run from cron            *)
(*   "server"    src/index.js 139-300   HTTP trigger server with a log     *)
(*   "puppeteer" src/index.js 302-645   class LetsCertificateRenewer       *)
(*   "mini"      src/index.js 647-769   minimal HTTP trigger server        *)
(*   "session"   src/unnamed/part_000   class CertificateRenewer           *)
(*                                                                         *)
(* One run of a variant is a process that moves through the awaits of its  *)
(* routine; the file system, the CA and the control panel are shared and   *)
(* answer nondeterministically.  acme-client's client.auto() is a library: *)
(* it is modelled by its documented contract (account, order, then for     *)
(* every authorization challengeCreateFn, completeChallenge, poll, and     *)
(* challengeRemoveFn in a finally block whose errors it swallows and whose *)
(* callers' return values it discards; finalize after all authorizations   *)
(* have settled).                                                          *)
(***************************************************************************)
EXTENDS Integers, Sequences, FiniteSets, TLC

(* ------------------------------ bounds -------------------------------- *)
\* run slots: concurrent HTTP triggers, or successive cron/CLI runs
MaxRuns == 2
\* I/O faults (EIO, EACCES, ENOSPC, ...) injected in one behaviour
MaxFaults == 1

(* ------------------------- program constants -------------------------- *)
\* the clock of the model ticks in hours; the source divides milliseconds
\* by 1000 * 60 * 60 * 24 to get days
TicksPerDay == 24
\* "Renew if less than 30 days remaining"
RenewDays == 30
\* "Renew if certificate is older than 60 days"
MaxAgeDays == 60
\* "Let's Encrypt certs are valid for 90 days"
ValidityDays == 90

Variants == {"cron", "server", "puppeteer", "mini", "session"}
ServerVariants == {"server", "mini"}
ClassVariants == {"puppeteer", "session"}
\* variants whose log() lets an appendFile error escape
ThrowingLogVariants == {"cron", "server"}

Runs == 1..MaxRuns

NoFile == 0
NoKey == NoFile
NoChal == <<>>
NoAccounts == <<>>
\* what a key file holds after a write that was cut short: not a key
PartialKey == 0 - 1

\* the Authorization header of a request: the shared secret as a bearer
\* token, another bearer token, or no header
NoHeader == "none"
ExpectedHeader == "Bearer secret"
Headers == {ExpectedHeader, "Bearer other", NoHeader}

\* the files of the key store: account.key, `${DOMAIN}.key` (cron, server,
\* mini) and private.key (the class variants)
KeyPaths == {"account.key", "domain.key", "private.key"}

VARIABLES
    variant,      \* which of the five programs runs
    missing,      \* the configuration entry that is not set ("none": all set)
    panel,        \* per run: what the control panel got and answered
    dryRun,       \* --dry-run given (cron, session)
    now,          \* new Date(), in ticks
    keyFile,      \* key store: path -> NoFile or the key it holds
    certFile,     \* certificate.crt: [kind, notAfter, mtime]
    chalDir,      \* .well-known/acme-challenge: token -> NoChal or content
    nextKey,      \* next key createPrivateKey / createCsr generates
    nextToken,    \* next challenge token the CA issues
    faults,       \* I/O faults injected so far
    caAccounts,   \* CA: account key -> the number of accounts bound to it
    pc,           \* per run: the await the run is at
    accountKey,   \* per run: the account key load-or-create returned
    domainKey,    \* per run: the domain key load-or-create returned
    csrKey,       \* per run: the private key of the CSR
    needsRenewal, \* per run: "unset", "renew" or "skip"
    rlog,         \* per run: the events the run logged, in order
    result,       \* per run: what the caller got
    effects,      \* per run: the kinds of side effect the run has had
    startKeys,    \* per run: keyFile when the run started
    busyAtStart,  \* per run: a run was in flight when its request arrived
    authHeader,   \* per run: the Authorization header of its request
    err,          \* per run: the error the run threw ("" when none)
    authz,        \* per run: name -> [token, status, published, rmFailed]
    polIn,        \* renewal-check harness: the two certificates checked
    polOut,       \* renewal-check harness: the two decisions
    probe         \* harnesses: the last call made and what it returned

mainVars == <<variant, missing, panel, dryRun, now, keyFile, certFile, chalDir, nextKey,
              nextToken, faults, caAccounts, pc, accountKey, domainKey,
              csrKey, needsRenewal, rlog, result, effects, startKeys,
              busyAtStart, authHeader, err, authz>>
harnessVars == <<polIn, polOut, probe>>
vars == <<mainVars, harnessVars>>

(* ======================= RenewalPolicy ================================ *)

\* Math.floor((a - b) / (1000 * 60 * 60 * 24))
DaysBetween(a, b) == (a - b) \div TicksPerDay

\* LetsCertificateRenewer.checkCertificateExpiry: parse notAfter with
\* node-forge, renew when fewer than 30 whole days remain; any error renews
checkExpiryForge(cert, t) ==
    IF cert.kind # "cert" THEN TRUE
    ELSE DaysBetween(cert.notAfter, t) < RenewDays

\* CertificateRenewer.checkCertificateExpiry: the regex must find one PEM
\* block, then the age of the file (mtime) decides; any error renews
checkExpiryMtime(cert, t) ==
    IF cert.kind # "cert" THEN TRUE
    ELSE DaysBetween(t, cert.mtime) > MaxAgeDays

checkCertificateExpiry(v, cert, t) ==
    IF v = "session" THEN checkExpiryMtime(cert, t)
    ELSE checkExpiryForge(cert, t)

(* ========================= shared helpers ============================= *)

\* the names of one order: DOMAIN and www.DOMAIN (altNames), or the
\* commonName alone in the class variants
Names(v) == IF v \in ClassVariants THEN {"domain"} ELSE {"domain", "www"}

NameIndex(n) == IF n = "domain" THEN 0 ELSE 1

\* the file the variant keeps the domain's private key in
DomainKeyPath(v) == IF v \in ClassVariants THEN "private.key" ELSE "domain.key"

NoAuthz == [token |-> 0, status |-> "none", published |-> FALSE, rmFailed |-> FALSE]

\* ACME key authorization: a function of the token and the account key
KeyAuthorization(token, key) == <<token, key>>

Active(r) == pc[r] \notin {"idle", "done"}

\* between the start and the end of renew() (the catch handler runs after it)
InRenew(r) == pc[r] \notin {"idle", "done", "catch"}

\* an I/O call succeeds, or fails while the fault budget lasts
IoOutcomes == IF faults < MaxFaults THEN {"ok", "err"} ELSE {"ok"}

\* log(): cron and server let an appendFile error escape to the caller
LogOutcomes == IF variant \in ThrowingLogVariants THEN IoOutcomes ELSE {"ok"}

FaultsAfter(outs) == faults + Cardinality({i \in DOMAIN outs : outs[i] = "err"})

Logged(r, evs) == [rlog EXCEPT ![r] = @ \o evs]

Did(r, kinds) == [effects EXCEPT ![r] = @ \cup kinds]

\* CertificateRenewer.log appends to the log file only
\* `if (!this.config.dryRun)`; the console gets the line either way
AppendsToLogFile(v, dry) == ~(v = "session" /\ dry)

\* the lines run r has appended to the log file
LogFileLines(r) == IF AppendsToLogFile(variant, dryRun) THEN rlog[r] ELSE <<>>

InLog(r, ev) == \E i \in DOMAIN rlog[r] : rlog[r][i] = ev

(* ======================== configuration =============================== *)

\* the configuration: complete ("none"), or one entry not set.  A server
\* with an entry missing exits while loading and serves no request; renew.js
\* keeps its store beside the script and has no certificate directory
ConfigStates(v) ==
    IF v \in ServerVariants THEN {"none"}
    ELSE IF v = "cron" THEN {"none", "domain", "email", "password", "webRoot"}
    ELSE {"none", "domain", "email", "password", "certDir", "webRoot"}

\* renew.js at load: `if (!v) { console.error(...); process.exit(1) }` for
\* DOMAIN, EMAIL, CPANEL_USER, CPANEL_TOKEN, and path.join(HOME, ...) throws
\* without HOME, all before the first fs.mkdir
ExitsAtLoad(v, miss) == v = "cron" /\ miss # "none"

\* renewCertificate: `if (!this.config.cpanelPassword)` (the session
\* variant: `&& !this.config.dryRun`) and `if (!this.config.domain ...)`
ConfigRejected(v, miss, dry) ==
    /\ v \in ClassVariants
    /\ \/ miss = "domain"
       \/ miss = "password" /\ ~(v = "session" /\ dry)

(* ============================ Init ==================================== *)

Now0 == ValidityDays * TicksPerDay

AbsentCert == [kind |-> "absent", notAfter |-> 0, mtime |-> 0]
GarbageCert == [kind |-> "garbage", notAfter |-> 0, mtime |-> 0]

\* certificate.crt as a previous run, a copy or a restore may have left it:
\* fresh (45 days left, written 45 days ago), due (10 days left, written 80
\* days ago), restored (10 days left, file written 5 days ago)
CertScenarios ==
    { AbsentCert, GarbageCert,
      [kind |-> "cert", notAfter |-> Now0 + 45 * TicksPerDay, mtime |-> Now0 - 45 * TicksPerDay],
      [kind |-> "cert", notAfter |-> Now0 + 10 * TicksPerDay, mtime |-> Now0 - 80 * TicksPerDay],
      [kind |-> "cert", notAfter |-> Now0 + 10 * TicksPerDay, mtime |-> Now0 - 5 * TicksPerDay] }

\* the certificate client.auto() returns and the class variants save
IssuedCert(t) == [kind |-> "cert", notAfter |-> t + ValidityDays * TicksPerDay, mtime |-> t]

\* nothing sent to the control panel yet
NoPanel == [logins |-> 0, answer |-> "none", cert |-> <<>>, cab |-> <<>>]

IdleRuns(v) ==
    /\ pc = [r \in Runs |-> "idle"]
    /\ accountKey = [r \in Runs |-> NoKey]
    /\ domainKey = [r \in Runs |-> NoKey]
    /\ csrKey = [r \in Runs |-> NoKey]
    /\ needsRenewal = [r \in Runs |-> "unset"]
    /\ rlog = [r \in Runs |-> <<>>]
    /\ result = [r \in Runs |-> "none"]
    /\ effects = [r \in Runs |-> {}]
    /\ startKeys = [r \in Runs |-> [p \in KeyPaths |-> NoFile]]
    /\ busyAtStart = [r \in Runs |-> FALSE]
    /\ authHeader = [r \in Runs |-> NoHeader]
    /\ err = [r \in Runs |-> ""]
    /\ authz = [r \in Runs |-> [n \in Names(v) |-> NoAuthz]]
    /\ panel = [r \in Runs |-> NoPanel]

NoProbe == [op |-> "none"]

NoPolicyCheck ==
    /\ polIn = [v |-> "puppeteer", t |-> Now0, a |-> AbsentCert, b |-> AbsentCert]
    /\ polOut = [done |-> FALSE, a |-> FALSE, b |-> FALSE]
    /\ probe = NoProbe

Init ==
    /\ variant \in Variants
    /\ dryRun \in (IF variant \in {"cron", "session"} THEN BOOLEAN ELSE {FALSE})
    /\ missing \in ConfigStates(variant)
    /\ now = Now0
    /\ \E acc \in {NoFile, 1}, dom \in {NoFile, 2} :
         keyFile = [p \in KeyPaths |->
                      IF p = "account.key" THEN acc
                      ELSE IF p = DomainKeyPath(variant) THEN dom
                      ELSE NoFile]
    /\ certFile \in (IF variant \in ClassVariants THEN CertScenarios ELSE {AbsentCert})
    /\ chalDir = [t \in {} |-> NoChal]
    /\ nextKey = 3
    /\ nextToken = 1
    /\ faults = 0
    /\ caAccounts = NoAccounts
    /\ IdleRuns(variant)
    /\ NoPolicyCheck

(* ===================== starting and ending a run ====================== *)

\* a thrown error travels to the variant's catch handler
Thrown(r, e) ==
    /\ pc' = [pc EXCEPT ![r] = "catch"]
    /\ err' = [err EXCEPT ![r] = e]

\* a client that answers a rejection by the CA with another order
CaRejectedRetry(r) ==
    /\ pc' = [pc EXCEPT ![r] = "order"]
    /\ err' = [err EXCEPT ![r] = "acme"]

\* createAccount or client.auto() rejects with the error of the CA: nothing
\* around either call catches it and tries again
CaRejected(r) == Thrown(r, "acme")

Goto(r, where) ==
    /\ pc' = [pc EXCEPT ![r] = where]
    /\ UNCHANGED err

\* slots are taken in order
NextSlot(r) == pc[r] = "idle" /\ \A q \in Runs : q < r => pc[q] # "idle"

\* POST /certificate/renew reaches the handler: the bearer check, then
\* `await renew()`.  Nothing in either server looks at runs in flight.
AcceptsTrigger(authorized, busy) == authorized

\* a bearer check that looks at the scheme and not at the token
AuthorizedAnyBearer(header) == header # NoHeader

\* `req.headers.authorization !== \`Bearer ${RENEW_SECRET}\`` answers 401
Authorized(header) == header = ExpectedHeader

Trigger(r) ==
    /\ variant \in ServerVariants
    /\ NextSlot(r)
    /\ \E header \in Headers :
         LET busy == \E q \in Runs : InRenew(q) IN
         /\ busyAtStart' = [busyAtStart EXCEPT ![r] = busy]
         /\ authHeader' = [authHeader EXCEPT ![r] = header]
         /\ IF AcceptsTrigger(Authorized(header), busy)
            THEN /\ Goto(r, IF variant = "server" THEN "start" ELSE "acc_read")
                 /\ startKeys' = [startKeys EXCEPT ![r] = keyFile]
                 /\ UNCHANGED result
            ELSE /\ Goto(r, "done")
                 /\ result' = [result EXCEPT ![r] = "401"]
                 /\ UNCHANGED startKeys
    /\ UNCHANGED <<variant, missing, panel, dryRun, now,
                   keyFile, certFile, chalDir, nextKey,
                   nextToken, faults, caAccounts, accountKey, domainKey, csrKey,
                   needsRenewal, rlog, effects, authz, harnessVars>>

\* cron or a shell starts the script; successive runs, one process at a time
Launch(r) ==
    /\ variant \notin ServerVariants
    /\ NextSlot(r)
    /\ \A q \in Runs : ~Active(q)
    /\ IF ExitsAtLoad(variant, missing)
       THEN /\ pc' = [pc EXCEPT ![r] = "done"]
            /\ err' = [err EXCEPT ![r] = "config"]
            /\ result' = [result EXCEPT ![r] = "exit1"]
       ELSE Goto(r, "start") /\ UNCHANGED result
    /\ startKeys' = [startKeys EXCEPT ![r] = keyFile]
    /\ UNCHANGED <<variant, missing, panel, dryRun, now,
                   keyFile, certFile, chalDir, nextKey,
                   nextToken, faults, caAccounts, accountKey, domainKey, csrKey,
                   needsRenewal, rlog, effects, busyAtStart, authHeader, authz,
                   harnessVars>>

\* log('renew-start') / '=== Starting ... renewal ===' and the class
\* variants' configuration checks
LogStart(r) ==
    /\ pc[r] = "start"
    /\ \E lo \in LogOutcomes :
         /\ faults' = FaultsAfter(<<lo>>)
         /\ IF lo = "err"
            THEN Thrown(r, "log") /\ UNCHANGED rlog
            ELSE IF ConfigRejected(variant, missing, dryRun)
            THEN Thrown(r, "config") /\ rlog' = Logged(r, <<"renew-start">>)
            ELSE /\ Goto(r, IF variant \in ClassVariants THEN "check" ELSE "acc_read")
                 /\ rlog' = Logged(r, <<"renew-start">>)
    /\ UNCHANGED <<variant, missing, panel, dryRun, now,
                   keyFile, certFile, chalDir, nextKey,
                   nextToken, caAccounts, accountKey, domainKey, csrKey,
                   needsRenewal, result, effects, startKeys, busyAtStart,
                   authHeader,
                   authz, harnessVars>>

\* the go/no-go read the wrong way round
SkipsRunInverted(v, needs, dry) == needs = "renew"

\* renewCertificate: `if (!needsRenewal) return`, which the session variant
\* weakens to `if (!needsRenewal && !this.config.dryRun)`
SkipsRun(v, needs, dry) ==
    IF v = "session" THEN needs = "skip" /\ ~dry ELSE needs = "skip"

\* checkCertificateExpiry, then the go/no-go of renewCertificate and
\* ensureDirectoryExists(certDir).  Without certDir path.join throws inside
\* checkCertificateExpiry (caught: renew) and fs.mkdir(undefined) rejects
CheckExpiry(r) ==
    /\ pc[r] = "check"
    /\ \E ro \in IoOutcomes :
         LET seen == IF ro = "err" \/ missing = "certDir" THEN AbsentCert ELSE certFile
             needs == IF checkCertificateExpiry(variant, seen, now)
                      THEN "renew" ELSE "skip"
         IN
         /\ faults' = FaultsAfter(<<ro>>)
         /\ needsRenewal' = [needsRenewal EXCEPT ![r] = needs]
         /\ IF SkipsRun(variant, needs, dryRun)
            THEN /\ Goto(r, "done")
                 /\ rlog' = Logged(r, <<"expiry-checked", "no-renewal-needed">>)
                 /\ result' = [result EXCEPT ![r] = "exit0"]
                 /\ UNCHANGED effects
            ELSE IF missing = "certDir"
            THEN /\ Thrown(r, "type")
                 /\ rlog' = Logged(r, <<"expiry-checked">>)
                 /\ UNCHANGED <<result, effects>>
            ELSE /\ Goto(r, "acc_read")
                 /\ rlog' = Logged(r, <<"expiry-checked">>)
                 /\ effects' = Did(r, {"mkdir"})
                 /\ UNCHANGED result
    /\ UNCHANGED <<variant, missing, panel, dryRun, now,
                   keyFile, certFile, chalDir, nextKey,
                   nextToken, caAccounts, accountKey, domainKey, csrKey,
                   startKeys, busyAtStart, authHeader, authz, harnessVars>>

(* ============================ KeyStore ================================ *)

\* what the caller of fs.readFile(path) sees: `.catch(() => null)` and the
\* class variants' `catch (error)` both turn every failure into "no key"
ReadKey(path, outcome) ==
    IF outcome = "err" THEN NoKey ELSE keyFile[path]

\* a loadOrCreateAccountKey that writes the key in a dry run too
WritesKeyAlways(v, dry) == TRUE

\* the session variant writes the new key only `if (!this.config.dryRun)`
WritesKey(v, dry) == ~(v = "session" /\ dry)

\* fs.readFile(accPath): the account key, or on to createPrivateKey
ReadAccountKey(r) ==
    /\ pc[r] = "acc_read"
    /\ \E ro \in IoOutcomes :
         LET key == ReadKey("account.key", ro) IN
         /\ faults' = FaultsAfter(<<ro>>)
         /\ IF key # NoKey
            THEN /\ accountKey' = [accountKey EXCEPT ![r] = key]
                 /\ Goto(r, IF variant \in ClassVariants THEN "account" ELSE "dom_read")
                 /\ effects' = Did(r, {"keyload"})
                 /\ rlog' = IF variant \in ClassVariants
                            THEN Logged(r, <<"account-key-loaded">>) ELSE rlog
            ELSE /\ Goto(r, "acc_gen")
                 /\ effects' = Did(r, IF ro = "err" THEN {"keyreaderr"} ELSE {})
                 /\ UNCHANGED <<accountKey, rlog>>
    /\ UNCHANGED <<variant, missing, panel, dryRun, now,
                   keyFile, certFile, chalDir, nextKey,
                   nextToken, caAccounts, domainKey, csrKey, needsRenewal,
                   result, startKeys, busyAtStart, authHeader,
                   authz, harnessVars>>

\* createPrivateKey, fs.writeFile(accPath, accountKey), log
CreateAccountKey(r) ==
    /\ pc[r] = "acc_gen"
    /\ nextKey' = nextKey + 1
    /\ \E wo \in IoOutcomes, lo \in LogOutcomes :
         /\ wo = "err" => lo = "ok" /\ WritesKey(variant, dryRun)
         /\ faults' = FaultsAfter(<<wo, lo>>)
         /\ keyFile' = IF wo = "ok" /\ WritesKey(variant, dryRun)
                       THEN [keyFile EXCEPT !["account.key"] = nextKey]
                       ELSE keyFile
         /\ effects' = Did(r, {"keygen"} \cup
                              (IF wo = "ok" /\ WritesKey(variant, dryRun)
                               THEN {"keywrite"} ELSE {}))
         /\ IF wo = "err" THEN Thrown(r, "storage") /\ UNCHANGED <<accountKey, rlog>>
            ELSE IF lo = "err" THEN Thrown(r, "log") /\ UNCHANGED <<accountKey, rlog>>
            ELSE /\ accountKey' = [accountKey EXCEPT ![r] = nextKey]
                 /\ Goto(r, IF variant \in ClassVariants THEN "account" ELSE "dom_read")
                 /\ rlog' = IF variant = "mini" THEN rlog
                            ELSE Logged(r, <<"account-key-generated">>)
    /\ UNCHANGED <<variant, missing, panel, dryRun, now,
                   certFile, chalDir, nextToken,
                   caAccounts, domainKey, csrKey, needsRenewal, result,
                   startKeys, busyAtStart, authHeader, authz, harnessVars>>

\* fs.readFile(keyPath): the domain key (cron, server, mini)
ReadDomainKey(r) ==
    /\ pc[r] = "dom_read"
    /\ \E ro \in IoOutcomes :
         LET key == ReadKey("domain.key", ro) IN
         /\ faults' = FaultsAfter(<<ro>>)
         /\ IF key # NoKey
            THEN /\ domainKey' = [domainKey EXCEPT ![r] = key]
                 /\ Goto(r, "csr")
                 /\ effects' = Did(r, {"keyload"})
            ELSE /\ Goto(r, "dom_gen")
                 /\ effects' = Did(r, IF ro = "err" THEN {"keyreaderr"} ELSE {})
                 /\ UNCHANGED domainKey
    /\ UNCHANGED <<variant, missing, panel, dryRun, now,
                   keyFile, certFile, chalDir, nextKey,
                   nextToken, caAccounts, accountKey, csrKey, needsRenewal,
                   rlog, result, startKeys, busyAtStart, authHeader,
                   authz, harnessVars>>

\* createPrivateKey, fs.writeFile(keyPath, domainKey), log
CreateDomainKey(r) ==
    /\ pc[r] = "dom_gen"
    /\ nextKey' = nextKey + 1
    /\ \E wo \in IoOutcomes, lo \in LogOutcomes :
         /\ wo = "err" => lo = "ok"
         /\ faults' = FaultsAfter(<<wo, lo>>)
         /\ keyFile' = IF wo = "ok" THEN [keyFile EXCEPT !["domain.key"] = nextKey]
                       ELSE keyFile
         /\ effects' = Did(r, {"keygen"} \cup (IF wo = "ok" THEN {"keywrite"} ELSE {}))
         /\ IF wo = "err" THEN Thrown(r, "storage") /\ UNCHANGED <<domainKey, rlog>>
            ELSE IF lo = "err" THEN Thrown(r, "log") /\ UNCHANGED <<domainKey, rlog>>
            ELSE /\ domainKey' = [domainKey EXCEPT ![r] = nextKey]
                 /\ Goto(r, "csr")
                 /\ rlog' = IF variant = "mini" THEN rlog
                            ELSE Logged(r, <<"domain-key-generated">>)
    /\ UNCHANGED <<variant, missing, panel, dryRun, now,
                   certFile, chalDir, nextToken,
                   caAccounts, accountKey, csrKey, needsRenewal, result,
                   startKeys, busyAtStart, authHeader, authz, harnessVars>>

(* ========================= AcmeOrderMachine =========================== *)

\* acme.crypto.createCsr({...}, domainKey) signs with the stored domain key;
\* acme.forge.createCsr({commonName}) is given no key and generates one
CsrUsesStoredKey(v) == v \notin ClassVariants

\* createCsr (it throws when the stored domain key does not parse); the
\* session variant's requestCertificate returns a placeholder bundle before
\* it in a dry run
CreateCsr(r) ==
    /\ pc[r] = "csr"
    /\ IF variant = "session" /\ dryRun
       THEN /\ Goto(r, "install")
            /\ rlog' = Logged(r, <<"dry-run-skip-request">>)
            /\ UNCHANGED <<csrKey, nextKey, effects>>
       ELSE IF CsrUsesStoredKey(variant) /\ domainKey[r] = PartialKey
       THEN /\ Thrown(r, "key")
            /\ UNCHANGED <<csrKey, rlog, nextKey, effects>>
       ELSE IF CsrUsesStoredKey(variant)
       THEN /\ Goto(r, "account")
            /\ csrKey' = [csrKey EXCEPT ![r] = domainKey[r]]
            /\ UNCHANGED <<rlog, nextKey, effects>>
       ELSE /\ Goto(r, "order")
            /\ csrKey' = [csrKey EXCEPT ![r] = nextKey]
            /\ nextKey' = nextKey + 1
            /\ effects' = Did(r, {"keygen"})
            /\ rlog' = Logged(r, <<"requesting-certificate">>)
    /\ UNCHANGED <<variant, missing, panel, dryRun, now,
                   keyFile, certFile, chalDir, nextToken,
                   faults, caAccounts, accountKey, domainKey, needsRenewal,
                   result, startKeys, busyAtStart, authHeader,
                   authz, harnessVars>>

\* a CA that registers an account on every newAccount request
CaNewAccountAlways(accounts, key) ==
    [k \in DOMAIN accounts \cup {key} |->
        IF k = key THEN (IF k \in DOMAIN accounts THEN accounts[k] + 1 ELSE 1)
        ELSE accounts[k]]

\* createAccount({termsOfServiceAgreed, contact}) posts newAccount signed
\* with the account key: the CA answers with the account bound to that key
\* when there is one (RFC 8555, 7.3), and registers a new one otherwise
CaNewAccount(accounts, key) ==
    IF key \in DOMAIN accounts THEN accounts
    ELSE [k \in DOMAIN accounts \cup {key} |->
            IF k = key THEN 1 ELSE accounts[k]]

\* initializeAcmeClient (getAccountUrl throws on a new client, then
\* createAccount), or the account step of client.auto(): the CA returns the
\* account bound to the key, registers one, or rejects; a request signed
\* with something that is not a key is never accepted
EnsureAccount(r) ==
    /\ pc[r] = "account"
    /\ effects' = Did(r, {"ca"})
    /\ \E ca \in (IF accountKey[r] = PartialKey THEN {"reject"} ELSE {"ok", "reject"}) :
         IF ca = "ok"
         THEN /\ caAccounts' = CaNewAccount(caAccounts, accountKey[r])
              /\ Goto(r, IF variant \in ClassVariants THEN "csr" ELSE "order")
              /\ rlog' = IF variant \in ClassVariants
                         THEN Logged(r, <<"acme-account-ready">>) ELSE rlog
         ELSE /\ CaRejected(r)
              /\ UNCHANGED <<caAccounts, rlog>>
    /\ UNCHANGED <<variant, missing, panel, dryRun, now,
                   keyFile, certFile, chalDir, nextKey,
                   nextToken, faults, accountKey, domainKey, csrKey,
                   needsRenewal, result, startKeys, busyAtStart, authHeader,
                   authz,
                   harnessVars>>

\* client.auto(): createOrder and getAuthorizations; one authorization per
\* name, each with a token the CA has issued to nobody else
PlaceOrder(r) ==
    /\ pc[r] = "order"
    /\ effects' = Did(r, {"ca"})
    /\ \E ca \in {"ok", "reject"} :
         IF ca = "ok"
         THEN /\ authz' = [authz EXCEPT ![r] =
                    [n \in Names(variant) |->
                        [NoAuthz EXCEPT !.token = nextToken + NameIndex(n),
                                        !.status = "pending"]]]
              /\ nextToken' = nextToken + Cardinality(Names(variant))
              /\ Goto(r, "authz")
         ELSE /\ CaRejected(r)
              /\ UNCHANGED <<authz, nextToken>>
    /\ UNCHANGED <<variant, missing, panel, dryRun, now,
                   keyFile, certFile, chalDir, nextKey,
                   faults, caAccounts, accountKey, domainKey, csrKey,
                   needsRenewal, rlog, result, startKeys, busyAtStart,
                   authHeader,
                   harnessVars>>

(* ======================== ChallengeResponder ========================== *)

ChalContent(token) == IF token \in DOMAIN chalDir THEN chalDir[token] ELSE NoChal

WithChal(token, content) ==
    [t \in DOMAIN chalDir \cup {token} |-> IF t = token THEN content ELSE chalDir[t]]

WithoutChal(token) == [t \in DOMAIN chalDir \ {token} |-> chalDir[t]]

\* the token written where the key authorization belongs
ChallengeFileContentToken(token, keyAuth) == <<token, NoKey>>

\* fs.writeFile(path.join(CHAL, c.token), ka): what the file holds
ChallengeFileContent(token, keyAuth) == keyAuth

\* challengeRemoveFn: fs.rm(path, {force: true}) in cron, server and mini;
\* the class variants pass a function with an empty body, and the cleanup
\* closure handleHttpChallenge returns is dropped by client.auto()
RemoveFnDeletes(v) == v \notin ClassVariants

\* fs.rm with the force option dropped
RmRejectsNoForce(force, present, io) == io = "err" \/ ~present

\* fs.rm(path, {force: true}) ignores a missing path, fs.unlink rejects
\* with ENOENT; either rejects when the file system fails
RmRejects(force, present, io) == io = "err" \/ (~force /\ ~present)

\* does retracting raise to the caller?  challengeRemove awaits fs.rm with
\* force and then log(); the cleanup closure of handleHttpChallenge wraps
\* fs.unlink and its log in try/catch and logs a warning
RetractRaises(v, present, ro, lo) ==
    IF v \in ClassVariants THEN FALSE
    ELSE RmRejects(TRUE, present, ro) \/ lo = "err"

\* client.auto() with the error of challengeRemoveFn let through
SettledStatusStrict(status, removeRaised) ==
    IF status = "valid" /\ ~removeRaised THEN "settled_ok" ELSE "settled_fail"

\* client.auto(): `finally { try { await challengeRemoveFn(...) } catch {} }`:
\* the authorization settles by what the CA answered, whatever
\* challengeRemoveFn did
SettledStatus(status, removeRaised) ==
    IF status = "valid" THEN "settled_ok" ELSE "settled_fail"

\* a client that keeps waiting for a failed authorization to turn valid
SettledOnlyWhenValid(r, n) == authz[r][n].status = "settled_ok"

\* client.auto() is done with an authorization once the CA has resolved it,
\* to valid or to invalid, and challengeRemoveFn has been called
Settled(r, n) == authz[r][n].status \in {"settled_ok", "settled_fail"}

\* The authorizations of one order work on different tokens and files, so
\* the order in which client.auto() interleaves them changes nothing a run
\* can observe: they are taken one after the other, DOMAIN first.
MayWorkOn(r, n) ==
    \A m \in Names(variant) : NameIndex(m) < NameIndex(n) => Settled(r, m)

\* handleHttpChallenge: path.join(this.config.webRoot, ...) throws without
\* webRoot, before anything is written
HasChallengePath(v, miss) == ~(v \in ClassVariants /\ miss = "webRoot")

\* challengeCreateFn: write the key authorization under the token, then log
ChallengeCreate(r, n) ==
    /\ pc[r] = "authz"
    /\ authz[r][n].status = "pending"
    /\ MayWorkOn(r, n)
    /\ \E wo \in IoOutcomes, lo \in LogOutcomes :
         LET a == authz[r][n]
             ka == KeyAuthorization(a.token, accountKey[r])
             written == wo = "ok" /\ HasChallengePath(variant, missing)
         IN
         /\ wo = "err" => lo = "ok"
         /\ ~HasChallengePath(variant, missing) => wo = "ok" /\ lo = "ok"
         /\ faults' = FaultsAfter(<<wo, lo>>)
         /\ chalDir' = IF written
                       THEN WithChal(a.token, ChallengeFileContent(a.token, ka))
                       ELSE chalDir
         /\ authz' = [authz EXCEPT ![r][n] =
                        [a EXCEPT !.published = written,
                                  !.status = IF written /\ lo = "ok"
                                             THEN "created" ELSE "createfailed"]]
         /\ rlog' = IF written /\ lo = "ok" /\ variant # "mini"
                    THEN Logged(r, <<"challenge-create">>) ELSE rlog
         /\ effects' = Did(r, IF written THEN {"chalwrite"} ELSE {})
    /\ UNCHANGED <<variant, missing, panel, dryRun, now,
                   keyFile, certFile, nextKey, nextToken,
                   caAccounts, pc, accountKey, domainKey, csrKey, needsRenewal,
                   result, startKeys, busyAtStart, authHeader,
                   err, harnessVars>>

\* client.auto(): completeChallenge tells the CA to validate, after
\* challengeCreateFn has returned
CompleteChallenge(r, n) ==
    /\ pc[r] = "authz"
    /\ authz[r][n].status = "created"
    /\ authz' = [authz EXCEPT ![r][n].status = "signalled"]
    /\ effects' = Did(r, {"ca"})
    /\ UNCHANGED <<variant, missing, panel, dryRun, now,
                   keyFile, certFile, chalDir, nextKey,
                   nextToken, faults, caAccounts, pc, accountKey, domainKey,
                   csrKey, needsRenewal, rlog, result, startKeys, busyAtStart,
                   authHeader,
                   err, harnessVars>>

\* the CA fetches /.well-known/acme-challenge/<token> and resolves the
\* authorization; client.auto() polls until it sees valid or invalid
CaValidate(r, n) ==
    /\ pc[r] = "authz"
    /\ authz[r][n].status = "signalled"
    /\ \E verdict \in {"valid", "invalid"} :
         /\ verdict = "valid" =>
              ChalContent(authz[r][n].token) =
                  KeyAuthorization(authz[r][n].token, accountKey[r])
         /\ authz' = [authz EXCEPT ![r][n].status = verdict]
         /\ effects' = Did(r, IF verdict = "invalid" THEN {"invalid"} ELSE {})
    /\ UNCHANGED <<variant, missing, panel, dryRun, now,
                   keyFile, certFile, chalDir, nextKey,
                   nextToken, faults, caAccounts, pc, accountKey, domainKey,
                   csrKey, needsRenewal, rlog, result, startKeys,
                   busyAtStart, authHeader, err, harnessVars>>

\* client.auto(): `finally { try { await challengeRemoveFn(...) } catch {} }`
\* once the authorization has resolved or challengeCreateFn has thrown
ChallengeRemove(r, n) ==
    /\ pc[r] = "authz"
    /\ authz[r][n].status \in {"valid", "invalid", "createfailed"}
    /\ \E ro \in IoOutcomes, lo \in LogOutcomes :
         LET a == authz[r][n]
             deletes == RemoveFnDeletes(variant)
             present == a.token \in DOMAIN chalDir
             raised == deletes /\ RetractRaises(variant, present, ro, lo)
         IN
         /\ ro = "err" => lo = "ok" /\ deletes
         /\ faults' = FaultsAfter(<<ro, lo>>)
         /\ chalDir' = IF deletes /\ ro = "ok" THEN WithoutChal(a.token) ELSE chalDir
         /\ authz' = [authz EXCEPT ![r][n] =
                        [a EXCEPT !.rmFailed = (ro = "err"),
                                  !.status = SettledStatus(a.status, raised)]]
         /\ rlog' = IF deletes /\ ro = "ok" /\ lo = "ok" /\ variant # "mini"
                    THEN Logged(r, <<"challenge-remove">>) ELSE rlog
         /\ effects' = Did(r, IF raised THEN {"rmfail"} ELSE {})
    /\ UNCHANGED <<variant, missing, panel, dryRun, now,
                   keyFile, certFile, nextKey, nextToken,
                   caAccounts, pc, accountKey, domainKey, csrKey, needsRenewal,
                   result, startKeys, busyAtStart, authHeader,
                   err, harnessVars>>

\* client.auto() looking at the authorization of DOMAIN alone
AnyAuthzFailedFirstOnly(r) == authz[r]["domain"].status = "settled_fail"

\* client.auto(): one failed authorization fails the order
AnyAuthzFailed(r) == \E n \in Names(variant) : authz[r][n].status = "settled_fail"

\* client.auto() after every authorization has settled: it throws when one
\* failed, else finalizes the order and downloads the chain
AutoFinish(r) ==
    /\ pc[r] = "authz"
    /\ \A n \in Names(variant) : Settled(r, n)
    /\ IF AnyAuthzFailed(r)
       THEN CaRejected(r) /\ UNCHANGED effects
       ELSE /\ effects' = Did(r, {"ca", "finalize"})
            /\ \E ca \in {"ok", "reject"} :
                 IF ca = "ok" THEN Goto(r, "issued") ELSE CaRejected(r)
    /\ UNCHANGED <<variant, missing, panel, dryRun, now,
                   keyFile, certFile, chalDir, nextKey,
                   nextToken, faults, caAccounts, accountKey, domainKey, csrKey,
                   needsRenewal, rlog, result, startKeys, busyAtStart,
                   authHeader,
                   authz,
                   harnessVars>>

(* ========================= CertificateBundle ========================== *)

\* the certificates the CA may put in a chain
CertIds == {"leaf", "r3", "x1"}

\* A PEM text is the sequence of its lines (text.split('\n')): the two
\* delimiter lines, base64 lines (named after the certificate they encode;
\* base64 has no '-') and empty lines.
PemBlock(id) == <<"BEGIN", id, "END">>

IsDelim(line) == line \in {"BEGIN", "END"}

IsBody(line) == ~IsDelim(line) /\ line # ""

\* the certificates a PEM consumer finds in a text, in order
CertsIn(lines) == SelectSeq(lines, IsBody)

RECURSIVE FullChain(_, _)
\* the chain as the CA serves it: the blocks in order, each ended by a
\* newline, with or without an empty line between two blocks
FullChain(blocks, blank) ==
    IF blocks = <<>> THEN <<"">>
    ELSE PemBlock(Head(blocks))
         \o (IF blank /\ Len(blocks) > 1 THEN <<"">> ELSE <<>>)
         \o FullChain(Tail(blocks), blank)

\* index of the first delimiter line, 0 when there is none
FirstDelim(lines) ==
    IF \E i \in DOMAIN lines : IsDelim(lines[i])
    THEN CHOOSE i \in DOMAIN lines :
            IsDelim(lines[i]) /\ \A j \in 1..(i - 1) : ~IsDelim(lines[j])
    ELSE 0

RECURSIVE MatchPem(_)
\* text.match(/-----BEGIN CERTIFICATE-----[^-]+-----END CERTIFICATE-----/gs)
MatchPem(lines) ==
    IF lines = <<>> THEN <<>>
    ELSE IF Head(lines) # "BEGIN" THEN MatchPem(Tail(lines))
    ELSE LET rest == Tail(lines)
             k == FirstDelim(rest)
         IN IF k > 0 /\ rest[k] = "END"
            THEN <<SubSeq(lines, 1, k + 1)>> \o MatchPem(SubSeq(rest, k + 1, Len(rest)))
            ELSE MatchPem(rest)

RECURSIVE JoinLines(_)
\* parts.join('\n')
JoinLines(parts) ==
    IF parts = <<>> THEN <<>> ELSE Head(parts) \o JoinLines(Tail(parts))

RECURSIVE ChainLines(_, _)
\* the loop over cert.split('\n'): every line after the first END line
ChainLines(lines, inChain) ==
    IF lines = <<>> THEN <<>>
    ELSE (IF inChain THEN <<Head(lines)>> ELSE <<>>)
         \o ChainLines(Tail(lines), inChain \/ Head(lines) = "END")

\* what a variant takes for the certificate and for the CA bundle: the
\* first match and the joined rest; the class variants keep the text
\* client.auto() returned as the certificate and extract the chain from it
SplitChain(v, lines) ==
    IF v \in ClassVariants
    THEN [leaf |-> lines, chain |-> ChainLines(lines, FALSE)]
    ELSE LET parts == MatchPem(lines) IN
         [leaf |-> Head(parts), chain |-> JoinLines(Tail(parts))]

\* the chain Let's Encrypt returns: the leaf, an empty line, one intermediate
CaChain == FullChain(<<"leaf", "r3">>, TRUE)

(* ===================== after issuance: save, install ================== *)

Finished(r, res) ==
    /\ pc' = [pc EXCEPT ![r] = "done"]
    /\ result' = [result EXCEPT ![r] = res]
    /\ UNCHANGED err

\* what the caller of a run that returned normally gets
OkResult(v) == IF v \in ServerVariants THEN "200" ELSE "exit0"

\* what the caller of a run that threw gets
FailResult(v) == IF v \in ServerVariants THEN "500" ELSE "exit1"

\* a --dry-run flag that nothing reads
StopsBeforeInstallNever(v, dry) == FALSE

\* renew.js: `if (DRY) { await log('dry-run-complete'); return; }`
StopsBeforeInstall(v, dry) == v = "cron" /\ dry

\* cron and server: log('certificate-issued'), and cron's --dry-run return;
\* class variants: write certificate.crt and private.key (and chain.crt)
Issued(r) ==
    /\ pc[r] = "issued"
    /\ IF variant \in ClassVariants
       THEN \E wo \in IoOutcomes, failAt \in {"cert", "key"} :
              /\ faults' = FaultsAfter(<<wo>>)
              /\ certFile' = IF wo = "err" /\ failAt = "cert"
                             THEN certFile ELSE IssuedCert(now)
              /\ keyFile' = IF wo = "err" THEN keyFile
                            ELSE [keyFile EXCEPT !["private.key"] = csrKey[r]]
              /\ effects' = Did(r, IF wo = "err" /\ failAt = "cert" THEN {}
                                   ELSE IF wo = "err" THEN {"certwrite"}
                                   ELSE {"certwrite", "keywrite"})
              /\ IF wo = "err"
                 THEN Thrown(r, "storage") /\ UNCHANGED <<rlog, result>>
                 ELSE /\ Goto(r, "install")
                      /\ rlog' = Logged(r, <<"certificate-saved">>)
                      /\ UNCHANGED result
       ELSE \E lo \in LogOutcomes :
              /\ faults' = FaultsAfter(<<lo>>)
              /\ UNCHANGED <<certFile, keyFile, effects>>
              /\ IF lo = "err"
                 THEN Thrown(r, "log") /\ UNCHANGED <<rlog, result>>
                 ELSE IF StopsBeforeInstall(variant, dryRun)
                 THEN /\ Finished(r, "exit0")
                      /\ rlog' = Logged(r, <<"certificate-issued", "dry-run-complete">>)
                 ELSE /\ Goto(r, "install")
                      /\ rlog' = IF variant = "mini" THEN rlog
                                 ELSE Logged(r, <<"certificate-issued">>)
                      /\ UNCHANGED result
    /\ UNCHANGED <<variant, missing, panel, dryRun, now,
                   chalDir, nextKey, nextToken,
                   caAccounts, accountKey, domainKey, csrKey, needsRenewal,
                   startKeys, busyAtStart, authHeader, authz, harnessVars>>

\* the answers of the control panel: installed; HTTP 200 with a failure
\* payload; HTTP 200 with a failure payload in which the word "success"
\* occurs ("unsuccessful", "success":false); credentials refused; no answer
PanelAnswers == {"success", "failure", "failure_says_success", "loginfail", "neterr"}

\* data.status === 1 (cron, server, mini); an element of class success
\* appears (puppeteer); statusCode === 200 && body.includes('success')
TakenForSuccess(v, answer) ==
    IF v = "session" THEN answer \in {"success", "failure_says_success"}
    ELSE answer = "success"

\* the session variant catches a failed upload and logs the file locations;
\* its login is outside that try block; the other variants throw
FallsBack(v, answer) == v = "session" /\ answer # "loginfail"

\* every variant authenticates once: the token header of the one request,
\* one submit of the login form, one POST /login/
LoginAttempts(v) == 1

\* did the certificate reach the panel?  The class variants log in first
Submitted(v, answer) ==
    /\ answer # "neterr"
    /\ v \in ClassVariants => answer # "loginfail"

\* install_ssl over UAPI (cron, server, mini), the puppeteer form, or the
\* session variant's login + upload with its manual fallback.  The class
\* variants submit the files they stored: certificate.crt and chain.crt
Install(r) ==
    /\ pc[r] = "install"
    /\ IF variant = "session" /\ dryRun
       THEN /\ Finished(r, "exit0")
            /\ rlog' = Logged(r, <<"dry-run-skip-upload", "renewal-completed">>)
            /\ UNCHANGED <<effects, faults, panel>>
       ELSE \E answer \in PanelAnswers, lo \in LogOutcomes :
              LET parts == SplitChain(variant, CaChain)
                  sent == Submitted(variant, answer)
              IN
              /\ effects' = Did(r, {"install"})
              /\ panel' = [panel EXCEPT ![r] =
                             [logins |-> LoginAttempts(variant),
                              answer |-> answer,
                              cert |-> IF sent THEN parts.leaf ELSE <<>>,
                              cab |-> IF sent THEN parts.chain ELSE <<>>]]
              /\ lo = "err" => answer # "neterr"
              /\ faults' = FaultsAfter(<<lo>>)
              /\ IF lo = "err"
                 THEN Thrown(r, "log") /\ UNCHANGED <<rlog, result>>
                 ELSE IF TakenForSuccess(variant, answer)
                 THEN /\ Finished(r, OkResult(variant))
                      /\ rlog' = IF variant = "mini" THEN rlog
                                 ELSE Logged(r, <<"cpanel-install-success">>)
                 ELSE IF FallsBack(variant, answer)
                 THEN /\ Finished(r, "exit0")
                      /\ rlog' = Logged(r, <<"upload-failed", "fallback-manual",
                                            "renewal-completed">>)
                 ELSE /\ Thrown(r, "install")
                      /\ rlog' = IF variant = "mini" \/ answer = "neterr" THEN rlog
                                 ELSE Logged(r, <<"cpanel-install-failed">>)
                      /\ UNCHANGED result
    /\ UNCHANGED <<variant, missing, dryRun, now, keyFile, certFile, chalDir,
                   nextKey, nextToken, caAccounts, accountKey, domainKey,
                   csrKey,
                   needsRenewal, startKeys, busyAtStart, authHeader,
                   authz, harnessVars>>

\* the catch handler: log renew-error and exit(1); log server-error and
\* answer 500; answer 500; log and rethrow to main().catch -> exit(1)
Catch(r) ==
    /\ pc[r] = "catch"
    /\ \E lo \in LogOutcomes :
         /\ faults' = FaultsAfter(<<lo>>)
         /\ pc' = [pc EXCEPT ![r] = "done"]
         /\ result' = [result EXCEPT ![r] =
                         IF lo = "ok" THEN FailResult(variant)
                         ELSE IF variant = "server" THEN "noresponse" ELSE "crash"]
         /\ rlog' = IF lo = "ok" /\ variant # "mini"
                    THEN Logged(r, <<"renew-error">>) ELSE rlog
    /\ UNCHANGED <<variant, missing, panel, dryRun, now,
                   keyFile, certFile, chalDir, nextKey,
                   nextToken, caAccounts, accountKey, domainKey, csrKey,
                   needsRenewal, effects, startKeys, busyAtStart, authHeader,
                   err, authz,
                   harnessVars>>

(* ============================ the program ============================= *)

Next ==
    \/ \E r \in Runs : Trigger(r)
    \/ \E r \in Runs : Launch(r)
    \/ \E r \in Runs : LogStart(r)
    \/ \E r \in Runs : CheckExpiry(r)
    \/ \E r \in Runs : ReadAccountKey(r)
    \/ \E r \in Runs : CreateAccountKey(r)
    \/ \E r \in Runs : ReadDomainKey(r)
    \/ \E r \in Runs : CreateDomainKey(r)
    \/ \E r \in Runs : CreateCsr(r)
    \/ \E r \in Runs : EnsureAccount(r)
    \/ \E r \in Runs : PlaceOrder(r)
    \/ \E r \in Runs, n \in Names(variant) : ChallengeCreate(r, n)
    \/ \E r \in Runs, n \in Names(variant) : CompleteChallenge(r, n)
    \/ \E r \in Runs, n \in Names(variant) : CaValidate(r, n)
    \/ \E r \in Runs, n \in Names(variant) : ChallengeRemove(r, n)
    \/ \E r \in Runs : AutoFinish(r)
    \/ \E r \in Runs : Issued(r)
    \/ \E r \in Runs : Install(r)
    \/ \E r \in Runs : Catch(r)

Spec == Init /\ [][Next]_vars

\* the two renewer classes alone (LetsCertificateRenewer, CertificateRenewer):
\* renewCertificate() in one process at a time, started again and again
InitRenewer == Init /\ variant \in ClassVariants

NextRenewer ==
    \/ \E r \in Runs : Launch(r)
    \/ \E r \in Runs : LogStart(r)
    \/ \E r \in Runs : CheckExpiry(r)
    \/ \E r \in Runs : ReadAccountKey(r)
    \/ \E r \in Runs : CreateAccountKey(r)
    \/ \E r \in Runs : CreateCsr(r)
    \/ \E r \in Runs : EnsureAccount(r)
    \/ \E r \in Runs : PlaceOrder(r)
    \/ \E r \in Runs, n \in Names(variant) : ChallengeCreate(r, n)
    \/ \E r \in Runs, n \in Names(variant) : CompleteChallenge(r, n)
    \/ \E r \in Runs, n \in Names(variant) : CaValidate(r, n)
    \/ \E r \in Runs, n \in Names(variant) : ChallengeRemove(r, n)
    \/ \E r \in Runs : AutoFinish(r)
    \/ \E r \in Runs : Issued(r)
    \/ \E r \in Runs : Install(r)
    \/ \E r \in Runs : Catch(r)

SpecRenewer == InitRenewer /\ [][NextRenewer]_vars

(* ================== the renewal check on its own ====================== *)

\* days around the thresholds the harness draws its certificates from
PolSpan == 1

PolRemaining ==
    {(RenewDays + d) * TicksPerDay + h : d \in (0 - PolSpan)..PolSpan, h \in {0 - 1, 0, 1}}

PolAges ==
    {(MaxAgeDays + d) * TicksPerDay + h : d \in (0 - PolSpan)..PolSpan, h \in {0 - 1, 0, 1}}

PolCerts ==
    {AbsentCert, GarbageCert} \cup
    {[kind |-> "cert", notAfter |-> Now0 + rem, mtime |-> Now0 - age] :
        rem \in PolRemaining, age \in PolAges}

InitPolicy ==
    /\ polIn \in [v : ClassVariants, t : {Now0}, a : PolCerts, b : PolCerts]
    /\ polOut = [done |-> FALSE, a |-> FALSE, b |-> FALSE]
    /\ probe = NoProbe
    /\ variant = polIn.v
    /\ dryRun = FALSE
    /\ missing = "none"
    /\ now = polIn.t
    /\ keyFile = [p \in KeyPaths |-> NoFile]
    /\ certFile = polIn.a
    /\ chalDir = [t \in {} |-> NoChal]
    /\ nextKey = 3
    /\ nextToken = 1
    /\ faults = 0
    /\ caAccounts = NoAccounts
    /\ IdleRuns(variant)

\* checkCertificateExpiry on each of the two certificates
PolCheck ==
    /\ ~polOut.done
    /\ polOut' = [done |-> TRUE,
                  a |-> checkCertificateExpiry(polIn.v, polIn.a, polIn.t),
                  b |-> checkCertificateExpiry(polIn.v, polIn.b, polIn.t)]
    /\ UNCHANGED <<polIn, probe, mainVars>>

NextPolicy == PolCheck

SpecPolicy == InitPolicy /\ [][NextPolicy]_vars

(* ================ the challenge responder on its own ================== *)

\* tokens the harness publishes and retracts
RespTokens == 2

\* the challenge directory after retracting the token
RetractedDir(token, present, ro) ==
    IF present /\ ro = "ok" THEN WithoutChal(token) ELSE chalDir

InitResponder ==
    /\ variant \in Variants
    /\ dryRun = FALSE
    /\ missing = "none"
    /\ now = Now0
    /\ keyFile = [p \in KeyPaths |-> NoFile]
    /\ certFile = AbsentCert
    /\ chalDir = [t \in {} |-> NoChal]
    /\ nextKey = 3
    /\ nextToken = 1
    /\ faults = 0
    /\ caAccounts = NoAccounts
    /\ IdleRuns(variant)
    /\ NoPolicyCheck

\* challengeCreate / handleHttpChallenge: publish the proof of a token
RespPublish(t) ==
    /\ chalDir' = WithChal(t, ChallengeFileContent(t, KeyAuthorization(t, NoKey)))
    /\ probe' = [op |-> "publish", token |-> t, present |-> t \in DOMAIN chalDir,
                 fault |-> FALSE, raised |-> FALSE, twice |-> FALSE,
                 before |-> chalDir]
    /\ UNCHANGED <<variant, missing, panel, dryRun, now,
                   keyFile, certFile, nextKey, nextToken,
                   faults, caAccounts, pc, accountKey, domainKey, csrKey,
                   needsRenewal, rlog, result, effects, startKeys,
                   busyAtStart, authHeader,
                   err, authz, polIn, polOut>>

\* challengeRemove, or the cleanup closure: retract the proof of a token
RespRetract(t) ==
    \E ro \in {"ok", "err"},
       lo \in (IF variant \in ThrowingLogVariants THEN {"ok", "err"} ELSE {"ok"}) :
        LET present == t \in DOMAIN chalDir IN
        /\ ro = "err" => lo = "ok"
        /\ chalDir' = RetractedDir(t, present, ro)
        /\ probe' = [op |-> "retract", token |-> t, present |-> present,
                     fault |-> (ro = "err" \/ lo = "err"),
                     raised |-> RetractRaises(variant, present, ro, lo),
                     twice |-> (probe.op = "retract" /\ probe.token = t),
                     before |-> chalDir]
        /\ UNCHANGED <<variant, missing, panel, dryRun, now,
                       keyFile, certFile, nextKey,
                       nextToken, faults, caAccounts, pc, accountKey, domainKey,
                       csrKey, needsRenewal, rlog, result, effects, startKeys,
                       busyAtStart, authHeader, err, authz, polIn, polOut>>

NextResponder ==
    \/ \E t \in 1..RespTokens : RespPublish(t)
    \/ \E t \in 1..RespTokens : RespRetract(t)

SpecResponder == InitResponder /\ [][NextResponder]_vars

(* ===================== chain splitting on its own ===================== *)

\* longest chain the CA returns in the harness
MaxBlocks == 3

ChainInputs == UNION {[1..n -> CertIds] : n \in 1..MaxBlocks}

InitChain ==
    /\ variant \in Variants
    /\ dryRun = FALSE
    /\ missing = "none"
    /\ now = Now0
    /\ keyFile = [p \in KeyPaths |-> NoFile]
    /\ certFile = AbsentCert
    /\ chalDir = [t \in {} |-> NoChal]
    /\ nextKey = 3
    /\ nextToken = 1
    /\ faults = 0
    /\ caAccounts = NoAccounts
    /\ IdleRuns(variant)
    /\ polIn = [v |-> "puppeteer", t |-> Now0, a |-> AbsentCert, b |-> AbsentCert]
    /\ polOut = [done |-> FALSE, a |-> FALSE, b |-> FALSE]
    /\ \E blocks \in ChainInputs, blank \in BOOLEAN :
         probe = [op |-> "chain", blocks |-> blocks, blank |-> blank,
                  leaf |-> <<>>, chain |-> <<>>]

\* split the chain client.auto() returned
ChainSplit ==
    /\ probe.op = "chain"
    /\ LET out == SplitChain(variant, FullChain(probe.blocks, probe.blank)) IN
       probe' = [probe EXCEPT !.op = "split", !.leaf = out.leaf, !.chain = out.chain]
    /\ UNCHANGED <<mainVars, polIn, polOut>>

NextChain == ChainSplit

SpecChain == InitChain /\ [][NextChain]_vars

(* ================ the scripts, with the process killed ================ *)

\* The process is killed (SIGKILL, power loss, out of memory) while
\* fs.writeFile is writing a new key: the file has been opened with O_TRUNC
\* and holds what was written so far.  Nothing of the run happens after it.
CrashInKeyWrite(r) ==
    /\ pc[r] \in {"acc_gen", "dom_gen"}
    /\ WritesKey(variant, dryRun)
    /\ faults < MaxFaults
    /\ faults' = faults + 1
    /\ nextKey' = nextKey + 1
    /\ keyFile' = [keyFile EXCEPT
                     ![IF pc[r] = "acc_gen" THEN "account.key" ELSE "domain.key"] =
                         PartialKey]
    /\ effects' = Did(r, {"keygen"})
    /\ Finished(r, "crash")
    /\ UNCHANGED <<variant, missing, panel, dryRun, now, certFile, chalDir,
                   nextToken, caAccounts, accountKey, domainKey, csrKey,
                   needsRenewal, rlog, startKeys, busyAtStart, authHeader,
                   authz, harnessVars>>

InitScripts == Init /\ variant \notin ServerVariants

\* renew.js and the two renewer classes: one process at a time, started
\* again and again, and killed at the worst moment at most MaxFaults times
NextScripts ==
    \/ \E r \in Runs : Launch(r)
    \/ \E r \in Runs : LogStart(r)
    \/ \E r \in Runs : CheckExpiry(r)
    \/ \E r \in Runs : ReadAccountKey(r)
    \/ \E r \in Runs : CreateAccountKey(r)
    \/ \E r \in Runs : ReadDomainKey(r)
    \/ \E r \in Runs : CreateDomainKey(r)
    \/ \E r \in Runs : CrashInKeyWrite(r)
    \/ \E r \in Runs : CreateCsr(r)
    \/ \E r \in Runs : EnsureAccount(r)
    \/ \E r \in Runs : PlaceOrder(r)
    \/ \E r \in Runs, n \in Names(variant) : ChallengeCreate(r, n)
    \/ \E r \in Runs, n \in Names(variant) : CompleteChallenge(r, n)
    \/ \E r \in Runs, n \in Names(variant) : CaValidate(r, n)
    \/ \E r \in Runs, n \in Names(variant) : ChallengeRemove(r, n)
    \/ \E r \in Runs : AutoFinish(r)
    \/ \E r \in Runs : Issued(r)
    \/ \E r \in Runs : Install(r)
    \/ \E r \in Runs : Catch(r)

SpecScripts == InitScripts /\ [][NextScripts]_vars

\* the next step of run r: the await it is at returns or throws
RunStep(r) ==
    \/ LogStart(r)
    \/ CheckExpiry(r)
    \/ ReadAccountKey(r)
    \/ CreateAccountKey(r)
    \/ ReadDomainKey(r)
    \/ CreateDomainKey(r)
    \/ CreateCsr(r)
    \/ EnsureAccount(r)
    \/ PlaceOrder(r)
    \/ \E n \in Names(variant) : ChallengeCreate(r, n)
    \/ \E n \in Names(variant) : CompleteChallenge(r, n)
    \/ \E n \in Names(variant) : CaValidate(r, n)
    \/ \E n \in Names(variant) : ChallengeRemove(r, n)
    \/ AutoFinish(r)
    \/ Issued(r)
    \/ Install(r)
    \/ Catch(r)

\* the scripts when every call a run awaits eventually returns or fails:
\* a run that can take a step eventually takes one.  Nothing obliges cron
\* to start another run, nor the process to be killed.
SpecScriptsLive ==
    InitScripts /\ [][NextScripts]_vars /\ \A r \in Runs : WF_vars(RunStep(r))

(* ===================== the health check, watched ====================== *)

\* the request-target a GET for the health check arrives with
HealthUrl == "/health"

\* the string the handler compares req.url with
HealthRoute(v) == IF v = "mini" THEN "health" ELSE "/health"

\* the events with which a run ends: the install confirmed, or the error
\* logged by the catch handler
CompletionEvents == {"cpanel-install-success", "renew-error"}

\* the run that wrote the last line of the log file, when requests are
\* served one after the other: the latest run that has logged (0: none)
LastLogger ==
    IF \E r \in Runs : rlog[r] # <<>>
    THEN CHOOSE r \in Runs : rlog[r] # <<>> /\ \A q \in Runs : q > r => rlog[q] = <<>>
    ELSE 0

\* GET /health.  The logged server reads the log file, takes the "ts" of its
\* last line (null when the read fails) and answers 200; before any run the
\* last line is that of server-start.  The minimal server compares req.url
\* with 'health', which no request-target equals, and answers 404.
Health ==
    /\ variant \in ServerVariants
    /\ probe = NoProbe
    /\ \E ro \in IoOutcomes :
         /\ faults' = FaultsAfter(<<IF variant = "server" THEN ro ELSE "ok">>)
         /\ probe' =
              IF HealthRoute(variant) # HealthUrl
              THEN [op |-> "health", status |-> 404, ev |-> "null",
                    run |-> 0, inFlight |-> FALSE]
              ELSE IF ro = "err"
              THEN [op |-> "health", status |-> 200, ev |-> "null",
                    run |-> 0, inFlight |-> FALSE]
              ELSE IF LastLogger = 0
              THEN [op |-> "health", status |-> 200, ev |-> "server-start",
                    run |-> 0, inFlight |-> FALSE]
              ELSE [op |-> "health", status |-> 200,
                    ev |-> rlog[LastLogger][Len(rlog[LastLogger])],
                    run |-> LastLogger, inFlight |-> Active(LastLogger)]
    /\ UNCHANGED <<variant, missing, panel, dryRun, now, keyFile, certFile,
                   chalDir, nextKey, nextToken, caAccounts, pc, accountKey,
                   domainKey, csrKey, needsRenewal, rlog, result, effects,
                   startKeys, busyAtStart, authHeader, err, authz, polIn,
                   polOut>>

InitHealth == Init /\ variant \in ServerVariants

\* no health check answered yet
Unprobed == probe = NoProbe

\* no request being served
Quiet == \A q \in Runs : ~Active(q)

\* one of the two servers, its renewal requests arriving one after the
\* other, up to the answer to one GET /health
NextHealth ==
    \/ Unprobed /\ Quiet /\ \E r \in Runs : Trigger(r)
    \/ Unprobed /\ \E r \in Runs : LogStart(r)
    \/ Unprobed /\ \E r \in Runs : ReadAccountKey(r)
    \/ Unprobed /\ \E r \in Runs : CreateAccountKey(r)
    \/ Unprobed /\ \E r \in Runs : ReadDomainKey(r)
    \/ Unprobed /\ \E r \in Runs : CreateDomainKey(r)
    \/ Unprobed /\ \E r \in Runs : CreateCsr(r)
    \/ Unprobed /\ \E r \in Runs : EnsureAccount(r)
    \/ Unprobed /\ \E r \in Runs : PlaceOrder(r)
    \/ Unprobed /\ \E r \in Runs, n \in Names(variant) : ChallengeCreate(r, n)
    \/ Unprobed /\ \E r \in Runs, n \in Names(variant) : CompleteChallenge(r, n)
    \/ Unprobed /\ \E r \in Runs, n \in Names(variant) : CaValidate(r, n)
    \/ Unprobed /\ \E r \in Runs, n \in Names(variant) : ChallengeRemove(r, n)
    \/ Unprobed /\ \E r \in Runs : AutoFinish(r)
    \/ Unprobed /\ \E r \in Runs : Issued(r)
    \/ Unprobed /\ \E r \in Runs : Install(r)
    \/ Unprobed /\ \E r \in Runs : Catch(r)
    \/ Health

SpecHealth == InitHealth /\ [][NextHealth]_vars

(* ================== the request handler on its own ==================== *)

RenewUrl == "/certificate/renew"

\* the requests the HTTP parser hands to the handler: a request-target
\* starts with "/"
Methods == {"GET", "POST", "DELETE"}
Urls == {HealthUrl, RenewUrl, "/other"}

\* res.writeHead(status).end(body): the two calls on the response
Respond(status) == <<status, "end">>

\* POST /certificate/renew past the bearer check: `await renew()` returns
\* (200) or throws.  The logged server's catch awaits log('server-error')
\* before res.writeHead(500): when the append fails the handler rejects
\* there.  The minimal server's catch answers at once.
RenewCalls(v, renewed, lo) ==
    IF renewed = "returns" THEN Respond("200")
    ELSE IF v = "server" /\ lo = "err" THEN <<>>
    ELSE Respond("500")

\* the branch for POST /certificate/renew, and 404 for everything else
RouteCalls(v, method, url, header, renewed, lo) ==
    IF method = "POST" /\ url = RenewUrl
    THEN IF ~Authorized(header) THEN Respond("401")
         ELSE RenewCalls(v, renewed, lo)
    ELSE Respond("404")

\* the calls one request makes on its response.  The logged server returns
\* after answering the health check; the minimal server's first `if` has no
\* return and no else, so a request it matched would go on to the second.
HandlerCalls(v, method, url, header, renewed, lo) ==
    IF method = "GET" /\ url = HealthRoute(v)
    THEN IF v = "server" THEN Respond("200")
         ELSE Respond("200") \o RouteCalls(v, method, url, header, renewed, lo)
    ELSE RouteCalls(v, method, url, header, renewed, lo)

InitHandler ==
    /\ variant \in ServerVariants
    /\ dryRun = FALSE
    /\ missing = "none"
    /\ now = Now0
    /\ keyFile = [p \in KeyPaths |-> NoFile]
    /\ certFile = AbsentCert
    /\ chalDir = [t \in {} |-> NoChal]
    /\ nextKey = 3
    /\ nextToken = 1
    /\ faults = 0
    /\ caAccounts = NoAccounts
    /\ IdleRuns(variant)
    /\ polIn = [v |-> "puppeteer", t |-> Now0, a |-> AbsentCert, b |-> AbsentCert]
    /\ polOut = [done |-> FALSE, a |-> FALSE, b |-> FALSE]
    /\ \E method \in Methods, url \in Urls, header \in Headers,
          renewed \in {"returns", "throws"}, lo \in {"ok", "err"} :
         probe = [op |-> "request", method |-> method, url |-> url,
                  header |-> header, renewed |-> renewed, log |-> lo,
                  calls |-> <<>>]

\* the handler runs to its end on one request
Handle ==
    /\ probe.op = "request"
    /\ probe' = [probe EXCEPT
                   !.op = "handled",
                   !.calls = HandlerCalls(variant, probe.method, probe.url,
                                          probe.header, probe.renewed, probe.log)]
    /\ UNCHANGED <<mainVars, polIn, polOut>>

NextHandler == Handle

SpecHandler == InitHandler /\ [][NextHandler]_vars

(* ============================== claims ================================ *)

\* C1: at most one renewal run is active at a time: no two executions of
\* renew() are between their start and their end in the same state.
C1_AtMostOneActiveRun == Cardinality({r \in Runs : InRenew(r)}) <= 1

\* C2: a trigger that arrived while a run was in flight was rejected at
\* once with a failure response: it has started no run and had no effect.
C2_BusyTriggerRejected ==
    \A r \in Runs :
        busyAtStart[r] =>
            /\ pc[r] = "done"
            /\ result[r] \notin {"none", "200"}
            /\ effects[r] = {}

\* C3: the renewal check answers renew exactly when the certificate is
\* absent or unparseable or its remaining validity R is at most the
\* threshold T (30 days), a certificate with exactly T days left included.
C3_RenewIffWithinThreshold ==
    polOut.done =>
        (polOut.a <=>
            \/ polIn.a.kind # "cert"
            \/ polIn.a.notAfter - polIn.t <= RenewDays * TicksPerDay)

\* C4: the decision is a function of not-after, the current time and the
\* threshold: two certificates with the same not-after, checked at the same
\* time, get the same decision whatever their files' modification times.
C4_DecisionIgnoresMtime ==
    (polOut.done /\ polIn.a.kind = polIn.b.kind
                 /\ polIn.a.notAfter = polIn.b.notAfter)
        => (polOut.a <=> polOut.b)

SkippedRunStopped(r) ==
    /\ pc[r] = "done"
    /\ result[r] = "exit0"
    /\ rlog[r] # <<>>
    /\ rlog[r][Len(rlog[r])] = "no-renewal-needed"
    /\ effects[r] = {}
    /\ accountKey[r] = NoKey
    /\ csrKey[r] = NoKey

\* C5 as claimed: whenever the renewal check returned skip, the run has
\* recorded the skip and stopped, with no CA contact, no key loaded or
\* generated and no installation attempted.
C5_SkipStopsRunAlways ==
    \A r \in Runs : needsRenewal[r] = "skip" => SkippedRunStopped(r)

\* C5 as amended: outside dry-run mode, whenever the renewal check returned
\* skip, the run has recorded the skip and stopped, with no CA contact, no
\* key loaded or generated and no installation attempted.
C5_SkipStopsRun ==
    \A r \in Runs : (needsRenewal[r] = "skip" /\ ~dryRun) => SkippedRunStopped(r)

C5_Witness ==
    \E r \in Runs : needsRenewal[r] = "skip" /\ ~dryRun /\ pc[r] = "done"

\* C6: load-or-create is idempotent: any two runs that obtained the key of
\* an identity (account or domain) obtained the same key, the store never
\* being deleted in between.
C6_LoadOrCreateIdempotent ==
    \A r1, r2 \in Runs :
        /\ (accountKey[r1] # NoKey /\ accountKey[r2] # NoKey)
              => accountKey[r1] = accountKey[r2]
        /\ (domainKey[r1] # NoKey /\ domainKey[r2] # NoKey)
              => domainKey[r1] = domainKey[r2]

\* C7: a key file that exists is never given another content, and the key
\* of the CSR is the domain key that was stored when the run started.
C7_ExistingKeyKept ==
    /\ [][\A p \in KeyPaths : keyFile[p] # NoFile => keyFile'[p] = keyFile[p]]_vars
    /\ [](\A r \in Runs :
            (csrKey[r] # NoKey /\ startKeys[r][DomainKeyPath(variant)] # NoFile)
                => csrKey[r] = startKeys[r][DomainKeyPath(variant)])

\* C8: a run whose key read failed for a reason other than "not found"
\* generates and writes no key, and ends in failure.
C8_ReadErrorAborts ==
    \A r \in Runs :
        "keyreaderr" \in effects[r] =>
            /\ effects[r] \cap {"keygen", "keywrite"} = {}
            /\ pc[r] = "done" => result[r] \in {"500", "exit1"}

\* C9: in every state in which the CA has been told to validate a challenge
\* and has not yet answered, the file <token> of the challenge directory
\* holds the key authorization of that challenge, completely written.
C9_PublishedBeforeValidation ==
    \A r \in Runs : \A n \in Names(variant) :
        authz[r][n].status = "signalled" =>
            /\ authz[r][n].published
            /\ ChalContent(authz[r][n].token) =
                   KeyAuthorization(authz[r][n].token, accountKey[r])

C9_Witness ==
    \E r \in Runs : \E n \in Names(variant) :
        authz[r][n].status = "signalled" /\ accountKey[r] # NoKey

\* C10: at the end of a run no challenge file the run published is still
\* there, whether its authorization ended valid or invalid, unless the
\* deletion itself failed.
C10_ChallengesRetracted ==
    \A r \in Runs :
        pc[r] = "done" =>
            \A n \in Names(variant) :
                (authz[r][n].published /\ ~authz[r][n].rmFailed)
                    => authz[r][n].token \notin DOMAIN chalDir

\* C11: retracting a token that is not published (never published, or
\* already retracted) raises no error and leaves the challenge directory as
\* it was, the file system and the log working.
C11_RetractAbsentIsNoOp ==
    (probe.op = "retract" /\ ~probe.present /\ ~probe.fault) =>
        /\ ~probe.raised
        /\ chalDir = probe.before

C11_Witness ==
    /\ probe.op = "retract"
    /\ probe.twice
    /\ ~probe.present
    /\ ~probe.fault
    /\ chalDir # [t \in {} |-> NoChal]

C13_InvalidAuthzFailsRun ==
    \A r \in Runs :
        "invalid" \in effects[r] =>
            /\ pc[r] \notin {"issued", "install"}
            /\ ~InLog(r, "certificate-issued")
            /\ ~InLog(r, "certificate-saved")
            /\ effects[r] \cap {"finalize", "certwrite", "install"} = {}
            /\ pc[r] = "done" => result[r] \notin {"200", "exit0"}

C13_Witness ==
    \E r \in Runs :
        /\ "invalid" \in effects[r]
        /\ pc[r] = "done"
        /\ \E n \in Names(variant) : authz[r][n].status = "settled_ok"

\* C14: splitting the concatenation of N >= 1 PEM blocks yields a leaf that
\* is exactly the first block and a chain that is exactly the other N-1
\* blocks in their order (empty when N = 1).
C14_SplitInvertsConcat ==
    probe.op = "split" =>
        /\ CertsIn(probe.leaf) = <<Head(probe.blocks)>>
        /\ CertsIn(probe.chain) = Tail(probe.blocks)

\* a run whose certificate reached the control panel
Installs(r) == panel[r].answer # "none" /\ Submitted(variant, panel[r].answer)

\* C15: in every run that installs, the certificate submitted to the
\* control panel is the leaf block alone, and the CA bundle submitted holds
\* the intermediates and not the leaf.
C15_LeafAndChainApart ==
    \A r \in Runs :
        Installs(r) =>
            /\ CertsIn(panel[r].cert) = <<"leaf">>
            /\ CertsIn(panel[r].cab) = <<"r3">>

\* the run recorded a successful install: the success event in its log, or
\* a success result after an install attempt that did not fall back
RecordedInstalled(r) ==
    \/ InLog(r, "cpanel-install-success")
    \/ /\ pc[r] = "done"
       /\ "install" \in effects[r]
       /\ result[r] = OkResult(variant)
       /\ ~InLog(r, "fallback-manual")

\* C16: an install is recorded as successful only when the control panel
\* reported success: never on an HTTP 200 whose payload reports failure.
C16_SuccessNeedsIndicator ==
    \A r \in Runs : RecordedInstalled(r) => panel[r].answer = "success"

HardFailures == {"500", "exit1", "crash", "noresponse"}

\* the run ended with the manual-follow-up outcome: the locations of the
\* certificate, key and chain files recorded, and no failure to the caller
ManualFollowUp(r) ==
    /\ InLog(r, "fallback-manual")
    /\ result[r] \notin HardFailures

\* C17: a run to which the control panel answered HTTP 200 with a failure
\* payload ends with the manual-follow-up outcome, not as a hard failure.
C17_PanelFailureIsManualFollowUp ==
    \A r \in Runs :
        (pc[r] = "done" /\ panel[r].answer \in {"failure", "failure_says_success"})
            => ManualFollowUp(r)

\* C18: a run logs in to the control panel at most twice, and a run whose
\* login was refused ends with the manual-follow-up outcome, not as a hard
\* failure.
C18_AuthFailureFallsBack ==
    \A r \in Runs :
        /\ panel[r].logins <= 2
        /\ (pc[r] = "done" /\ panel[r].answer = "loginfail") => ManualFollowUp(r)

\* C19: every completed run has reported an outcome, and the outcome of a
\* run that fell back to manual delivery is neither the outcome of a
\* successful install nor that of a failure.
C19_ThreeOutcomes ==
    \A r \in Runs :
        pc[r] = "done" =>
            /\ result[r] # "none"
            /\ InLog(r, "fallback-manual") =>
                  result[r] \notin {OkResult(variant), FailResult(variant)}

\* C20: a run whose configuration lacks a required entry fails with a
\* configuration error before it contacts the CA or the control panel and
\* before it creates or writes any file or directory (the log apart).
C20_ConfigErrorFailsFast ==
    \A r \in Runs :
        (missing # "none" /\ pc[r] # "idle") =>
            /\ effects[r] \subseteq {"keyload", "keyreaderr"}
            /\ accountKey[r] = NoKey
            /\ pc[r] \in {"start", "check", "catch", "done"}
            /\ pc[r] = "done" => (err[r] = "config" /\ result[r] \in {"exit1", "500"})

\* a step of the run failed: an error was thrown inside the run, or a read
\* of the key store failed
StepFailed(r) ==
    \/ err[r] \notin {"", "config"}
    \/ "keyreaderr" \in effects[r]

\* C21: a run in which a step failed (key storage, ACME order, challenge
\* publish, install) goes to its error handler and no further, and once it
\* has ended the error is in its log and the caller got a failure (a
\* non-zero exit code or HTTP 500).
C21_ErrorAbortsRun ==
    \A r \in Runs :
        StepFailed(r) =>
            /\ pc[r] \in {"catch", "done"}
            /\ pc[r] = "done" =>
                  /\ result[r] \in {"exit1", "500"}
                  /\ InLog(r, "renew-error")

\* the run saved the certificate it was issued and ended without the
\* control panel having installed it
SavedNotInstalled(r) ==
    /\ pc[r] = "done"
    /\ InLog(r, "certificate-saved")
    /\ panel[r].answer # "success"

\* the run asked the CA for a new order
PlacedOrder(r) == \E n \in Names(variant) : authz[r][n].status # "none"

\* C22: the run after one that saved its certificate without getting it
\* installed, when it ends without an error, has submitted a certificate to
\* the control panel and has placed no order with the CA.
C22_NextRunInstallsSaved ==
    \A r \in Runs :
        (r + 1 \in Runs /\ SavedNotInstalled(r)
           /\ pc[r + 1] = "done" /\ result[r + 1] = "exit0") =>
            /\ "install" \in effects[r + 1]
            /\ ~PlacedOrder(r + 1)

\* the run has got its account from the CA
AccountReady(r) == InLog(r, "acme-account-ready")

C24_UnauthorizedNeverRuns ==
    \A r \in Runs :
        (variant \in ServerVariants /\ pc[r] # "idle"
           /\ authHeader[r] # ExpectedHeader) =>
            /\ pc[r] = "done"
            /\ result[r] = "401"
            /\ effects[r] = {}
            /\ rlog[r] = <<>>
            /\ accountKey[r] = NoKey /\ domainKey[r] = NoKey
            /\ ~PlacedOrder(r)
            /\ panel[r] = NoPanel

\* a request with another bearer token was answered while a run was going on
C24_Witness ==
    \E r, q \in Runs :
        /\ authHeader[r] = "Bearer other"
        /\ result[r] = "401"
        /\ InRenew(q)

\* C25: GET /health is answered 200, and the timestamp in the answer is
\* that of the completion of a run that has ended: not that of an event of
\* a run still in flight, nor of an event that does not end a run.
C25_HealthReportsLastCompletion ==
    probe.op = "health" =>
        /\ probe.status = 200
        /\ probe.ev # "null" =>
              /\ probe.ev \in CompletionEvents
              /\ ~probe.inFlight

\* C26: a run of renew.js with --dry-run never contacts the control panel,
\* and when it ends without an error it has loaded or created both keys,
\* obtained the certificate from the CA and logged dry-run-complete.
C26_DryRunSkipsInstallOnly ==
    \A r \in Runs :
        (variant = "cron" /\ dryRun) =>
            /\ "install" \notin effects[r]
            /\ panel[r] = NoPanel
            /\ (pc[r] = "done" /\ result[r] = "exit0") =>
                  /\ accountKey[r] \notin {NoKey, PartialKey}
                  /\ domainKey[r] \notin {NoKey, PartialKey}
                  /\ "finalize" \in effects[r]
                  /\ InLog(r, "certificate-issued")
                  /\ InLog(r, "dry-run-complete")

\* a dry run of renew.js has ended after the CA issued the certificate
C26_Witness ==
    \E r \in Runs :
        /\ variant = "cron" /\ dryRun
        /\ pc[r] = "done" /\ result[r] = "exit0"
        /\ "finalize" \in effects[r]

\* the step logs the event for the first time in run r
LogsNow(r, ev) ==
    /\ ~InLog(r, ev)
    /\ \E i \in DOMAIN rlog'[r] : rlog'[r][i] = ev

\* the step is the placing of run r's order with the CA
OrdersNow(r) == ~PlacedOrder(r) /\ \E n \in Names(variant) : authz'[r][n].status # "none"

\* C27: when a run reports that it generated and saved a key, the key file
\* holds that key, and the key a certificate is ordered for is in the key
\* store by the time the order is placed.
C27_KeySavedWhenReported ==
    [][\A r \in Runs :
          /\ LogsNow(r, "account-key-generated") =>
                keyFile'["account.key"] = accountKey'[r]
          /\ LogsNow(r, "domain-key-generated") =>
                keyFile'["domain.key"] = domainKey'[r]
          /\ OrdersNow(r) =>
                keyFile'[DomainKeyPath(variant)] = csrKey'[r]]_vars

\* C28: no run takes for its account key or its domain key what a write cut
\* short by a crash of an earlier run left in the key file.
C28_NoPartialKeyUsed ==
    \A r \in Runs :
        /\ accountKey[r] # PartialKey
        /\ domainKey[r] # PartialKey

\* the step is run r getting the tokens of an order from the CA
PlacesOrderNow(r) ==
    \E n \in Names(variant) : authz'[r][n].token # authz[r][n].token

\* C29: a run places an order only when it has placed none before and the
\* CA has rejected nothing of it, and a run to which the CA rejected the
\* account, the order or an authorization is in its error handler or has
\* ended in failure.
C29_RejectionNotRetried ==
    [][\A r \in Runs :
          /\ PlacesOrderNow(r) => (~PlacedOrder(r) /\ err[r] = "")
          /\ err'[r] = "acme" =>
                /\ pc'[r] \in {"catch", "done"}
                /\ pc'[r] = "done" => result'[r] \in HardFailures]_vars

\* a run has ended in failure after the CA refused an authorization of the
\* order it had placed
C29_Witness ==
    \E r \in Runs :
        /\ err[r] = "acme"
        /\ pc[r] = "done"
        /\ PlacedOrder(r)
        /\ "invalid" \in effects[r]

\* C30: every run that has started eventually ends, and a run has an
\* outcome exactly when it has ended: the outcome is set once and never
\* changes afterwards.
C30_EveryRunEnds ==
    /\ \A r \in Runs : (pc[r] # "idle") ~> (pc[r] = "done")
    /\ [][\A r \in Runs :
             /\ (pc'[r] = "done") <=> (result'[r] # "none")
             /\ result[r] # "none" => result'[r] = result[r]]_vars

\* two runs have ended, one with success and one with a failure after the
\* CA refused the order it had placed
C30_Witness ==
    \E r, q \in Runs :
        /\ pc[r] = "done" /\ result[r] = "exit0"
        /\ pc[q] = "done" /\ result[q] = "exit1" /\ PlacedOrder(q)

IsEnd(call) == call = "end"

IsHead(call) == call # "end"

\* C31: a request the handler has dealt with has had the head of its
\* response written once and its response ended once.
C31_ExactlyOneResponse ==
    probe.op = "handled" =>
        /\ Len(SelectSeq(probe.calls, IsHead)) = 1
        /\ Len(SelectSeq(probe.calls, IsEnd)) = 1

\* what a dry run must not do: write a key, a certificate or chain file or
\* a challenge file, have the CA issue a certificate, contact the panel
DryRunForbidden == {"keywrite", "certwrite", "chalwrite", "finalize", "install"}

\* C32: in a dry run of the session-login renewer no run writes a key,
\* certificate, chain, challenge or log file, contacts the control panel or
\* places an order with the CA, and no step changes the key store, the
\* certificate file or the challenge directory.
C32_DryRunFrame ==
    /\ [](\A r \in Runs :
            (variant = "session" /\ dryRun) =>
                /\ effects[r] \cap DryRunForbidden = {}
                /\ LogFileLines(r) = <<>>
                /\ panel[r] = NoPanel
                /\ ~PlacedOrder(r))
    /\ [][(variant = "session" /\ dryRun) =>
             UNCHANGED <<keyFile, certFile, chalDir>>]_vars

\* a dry run has gone through to its end although the renewal check said
\* the certificate was not due, with an account key it had to generate
C32_Witness ==
    \E r \in Runs :
        /\ variant = "session" /\ dryRun
        /\ needsRenewal[r] = "skip"
        /\ "keygen" \in effects[r]
        /\ pc[r] = "done" /\ result[r] = "exit0"

====
